---- MODULE Spec2Model ----
(***************************************************************************)
(* A model of the Photon image viewer (src/src/main.c): the security       *)
(* validation layer, the image loader, the metadata extractor and the      *)
(* process entry point.                                                    *)
(*                                                                         *)
(* Strings.  A C string argument is modelled as the buffer it points to:   *)
(* a record [null, body, fill, pad] denoting the bytes                     *)
(*        body[1] .. body[n]  fill fill ... fill (pad times)  NUL          *)
(* so that paths as long as MAX_PATH_LENGTH are represented without        *)
(* enumerating 4096 bytes.  body may itself hold NUL bytes: the C code     *)
(* only ever sees the bytes before the first NUL (strlen), the caller's    *)
(* logical length is Len(body) + pad.  null = TRUE is the NULL pointer.    *)
(* Bytes are their ASCII codes.                                            *)
(***************************************************************************)
EXTENDS Integers, Sequences, FiniteSets, TLC

\* ------------------------------------------------------------------ bounds
\* longest explicit byte prefix of an enumerated path
MaxBody == 3
\* longest explicit byte prefix of a path handed to the loader
MaxLoadBody == 2
\* longest file name handed to sanitize_filename on its own
MaxNameLen == 2
\* sizes are enumerated this far around 0 and around MAX_FILE_SIZE
SizeSpan == 30
\* texture handles the renderer can hand out
NumTex == 2
\* events main polls before its queue stays empty
MaxEvents == 1
\* events handle_events takes when it is fed any sequence of events
MaxPolls == 3

\* --------------------------------------------------------------- constants
MAX_PATH_LENGTH == 4096
MAX_FILENAME_LENGTH == 256
MAX_FILE_SIZE == 100 * 1024 * 1024
WINDOW_WIDTH == 800
WINDOW_HEIGHT == 600
MAX_DIMENSION == 32768

SECURITY_OK == "SECURITY_OK"
SECURITY_ERROR_INVALID_INPUT == "SECURITY_ERROR_INVALID_INPUT"
SECURITY_ERROR_PATH_TOO_LONG == "SECURITY_ERROR_PATH_TOO_LONG"
SECURITY_ERROR_FILE_TOO_LARGE == "SECURITY_ERROR_FILE_TOO_LARGE"
SECURITY_ERROR_ACCESS_DENIED == "SECURITY_ERROR_ACCESS_DENIED"
SECURITY_ERROR_MEMORY_ALLOCATION == "SECURITY_ERROR_MEMORY_ALLOCATION"

\* ------------------------------------------------------------------- bytes
NUL == 0
DOT == 46
SLASH == 47
BACKSLASH == 92
UNDERSCORE == 95

\* the cases of the switch in sanitize_filename:  < > : " | ? *
ReservedBytes == {60, 62, 58, 34, 124, 63, 42}

\* <ctype.h> in the "C" locale (the program never calls setlocale).  A byte
\* above 127 is neither printable nor whitespace, whether char is signed
\* (glibc, musl, the UCRT and Apple's libc all answer 0 for the negative
\* value) or unsigned.
isprint(c) == c >= 32 /\ c <= 126

isspace(c) == c \in {9, 10, 11, 12, 13, 32}

\* ----------------------------------------------------------------- strings
RECURSIVE SeqsUpTo(_, _)
\* all sequences over alphabet of length at most n
SeqsUpTo(alphabet, n) ==
    IF n = 0 THEN {<<>>}
    ELSE LET shorter == SeqsUpTo(alphabet, n - 1)
         IN  shorter \cup {Append(s, b) : s \in shorter, b \in alphabet}

NullStr == [null |-> TRUE, body |-> <<>>, fill |-> NUL, pad |-> 0]

Str(body, fill, pad) ==
    [null |-> FALSE, body |-> body, fill |-> IF pad = 0 THEN NUL ELSE fill,
     pad |-> pad]

\* the caller's view of the length: every byte up to the final terminator
LogicalLen(s) == Len(s.body) + s.pad

\* byte i (from 1) of the buffer; the terminator and beyond read as NUL
At(s, i) ==
    IF i <= Len(s.body) THEN s.body[i]
    ELSE IF i <= LogicalLen(s) THEN s.fill
    ELSE NUL

SetMin(S) == CHOOSE x \in S : \A y \in S : x <= y

SetMax(S) == CHOOSE x \in S : \A y \in S : x >= y

\* strlen: the number of bytes before the first NUL
strlen(s) ==
    LET nuls == {i \in 1..Len(s.body) : s.body[i] = NUL}
    IN  IF nuls # {} THEN SetMin(nuls) - 1
        ELSE IF s.fill = NUL THEN Len(s.body)
        ELSE LogicalLen(s)

\* some byte of the buffer before its final terminator is NUL
HasNul(s) == \E i \in 1..LogicalLen(s) : At(s, i) = NUL

\* strstr(s, "..") != NULL
strstr_dotdot(s) ==
    \E i \in 1..(strlen(s) - 1) : At(s, i) = DOT /\ At(s, i + 1) = DOT

\* memchr(s, c, n) != NULL
memchr(s, c, n) == \E i \in 1..n : At(s, i) = c

\* ---------------------------------------------------------- PathValidator
\* validate_filepath without the traversal check of line 69
validate_filepath_no_traversal(filepath) ==
    IF filepath.null THEN SECURITY_ERROR_INVALID_INPUT
    ELSE LET len == strlen(filepath)
         IN  IF len = 0 \/ len >= MAX_PATH_LENGTH
                 THEN SECURITY_ERROR_PATH_TOO_LONG
             ELSE IF memchr(filepath, NUL, len)
                 THEN SECURITY_ERROR_INVALID_INPUT
             ELSE SECURITY_OK

\* validate_filepath with the test len == 0 of line 65 left out
validate_filepath_empty_passes(filepath) ==
    IF filepath.null THEN SECURITY_ERROR_INVALID_INPUT
    ELSE LET len == strlen(filepath)
         IN  IF len >= MAX_PATH_LENGTH
                 THEN SECURITY_ERROR_PATH_TOO_LONG
             ELSE IF strstr_dotdot(filepath)
                 THEN SECURITY_ERROR_ACCESS_DENIED
             ELSE IF memchr(filepath, NUL, len)
                 THEN SECURITY_ERROR_INVALID_INPUT
             ELSE SECURITY_OK

validate_filepath(filepath) ==
    IF filepath.null THEN SECURITY_ERROR_INVALID_INPUT
    ELSE LET len == strlen(filepath)
         IN  IF len = 0 \/ len >= MAX_PATH_LENGTH
                 THEN SECURITY_ERROR_PATH_TOO_LONG
             ELSE IF strstr_dotdot(filepath)
                 THEN SECURITY_ERROR_ACCESS_DENIED
             ELSE IF memchr(filepath, NUL, len)
                 THEN SECURITY_ERROR_INVALID_INPUT
             ELSE SECURITY_OK

\* ------------------------------------------------------ FilenameSanitizer
\* the switch with the case '?' missing
SanitizeByte_missing_case(c) ==
    IF c \in ReservedBytes \ {63} THEN UNDERSCORE
    ELSE IF ~isprint(c) /\ ~isspace(c) THEN UNDERSCORE
    ELSE c

\* one iteration of the loop body: the switch on filename[i]
SanitizeByte(c) ==
    IF c \in ReservedBytes THEN UNDERSCORE
    ELSE IF ~isprint(c) /\ ~isspace(c) THEN UNDERSCORE
    ELSE c

\* sanitize_filename: the return code and the buffer as the call leaves it.
\* The loop rewrites bytes 1..len; the final store puts a NUL at byte max_len
\* (from 1), which is at or beyond the terminator unless the caller's buffer
\* held a NUL before its logical end.
sanitize_filename(filename, max_len) ==
    IF filename.null \/ max_len = 0
        THEN [rc |-> SECURITY_ERROR_INVALID_INPUT, out |-> filename]
    ELSE LET len == strlen(filename)
         IN  IF len >= max_len
                 THEN [rc |-> SECURITY_ERROR_PATH_TOO_LONG, out |-> filename]
             ELSE LET looped(i) ==
                          IF i <= len /\ i <= max_len - 1
                              THEN SanitizeByte(filename.body[i])
                              ELSE filename.body[i]
                      body2 == [i \in 1..Len(filename.body) |->
                                   IF i = max_len THEN NUL ELSE looped(i)]
                      fill2 == IF len > Len(filename.body)
                                   THEN SanitizeByte(filename.fill)
                                   ELSE filename.fill
                  IN  [rc |-> SECURITY_OK,
                       out |-> [filename EXCEPT !.body = body2,
                                                !.fill = fill2]]

\* -------------------------------------------------------------- SizeGuard
\* validate_image_size with >= for > in line 117
validate_image_size_off_by_one(file_size) ==
    IF file_size < 0 THEN SECURITY_ERROR_INVALID_INPUT
    ELSE IF file_size >= MAX_FILE_SIZE THEN SECURITY_ERROR_FILE_TOO_LARGE
    ELSE SECURITY_OK

validate_image_size(file_size) ==
    IF file_size < 0 THEN SECURITY_ERROR_INVALID_INPUT
    ELSE IF file_size > MAX_FILE_SIZE THEN SECURITY_ERROR_FILE_TOO_LARGE
    ELSE SECURITY_OK

\* ------------------------------------------------------------ float (IEEE)
\* Single-precision arithmetic on the non-negative floats, round to nearest,
\* ties to even.  A float is [m, e], its value m * 2^e: 0.0 is [0, 0];
\* a normal number has 2^23 <= m < 2^24 and -149 <= e <= 104; a subnormal
\* has 0 < m < 2^23 and e = -149; +infinity is [0, 128].
F32_ZERO == [m |-> 0, e |-> 0]

F32_INF == [m |-> 0, e |-> 128]

\* 1.0f
F32_ONE == [m |-> 8388608, e |-> -23]

\* 1.2f = 0x3F99999A
F32_1_2 == [m |-> 10066330, e |-> -23]

\* 1.1f = 0x3F8CCCCD
F32_1_1 == [m |-> 9227469, e |-> -23]

RECURSIVE Pow2(_)
Pow2(n) == IF n <= 0 THEN 1 ELSE 2 * Pow2(n - 1)

RECURSIVE BitLen(_)
\* the number of bits of n >= 0
BitLen(n) == IF n = 0 THEN 0 ELSE 1 + BitLen(n \div 2)

Max(a, b) == IF a >= b THEN a ELSE b

\* The float nearest to (hi * 2^24 + lo) * 2^E, where lo < 2^24 and sticky
\* says that the exact value lies strictly above that number (by less than
\* one unit of lo).
F32Round(hi, lo, sticky, E) ==
    IF hi = 0 /\ lo = 0 THEN F32_ZERO
    ELSE
    LET L == IF hi > 0 THEN 24 + BitLen(hi) ELSE BitLen(lo)
        s == Max(L - 24, (0 - 149) - E)
    IN  IF s <= 0
            THEN LET t == IF 24 - L <= E + 149 THEN 24 - L ELSE E + 149
                 IN  IF E - t > 104 THEN F32_INF
                     ELSE [m |-> lo * Pow2(t), e |-> E - t]
        ELSE IF s - 24 >= 30 THEN F32_ZERO
        ELSE
        LET q == IF s < 24 THEN hi * Pow2(24 - s) + (lo \div Pow2(s))
                 ELSE hi \div Pow2(s - 24)
            \* the discarded part against half a unit: 1 above, 0 equal, -1 below
            cmp == IF s < 24
                       THEN LET r == lo % Pow2(s)
                                half == Pow2(s - 1)
                            IN  IF r > half \/ (r = half /\ sticky) THEN 1
                                ELSE IF r = half THEN 0 ELSE -1
                   ELSE IF s = 24
                       THEN IF lo > 8388608 \/ (lo = 8388608 /\ sticky) THEN 1
                            ELSE IF lo = 8388608 THEN 0 ELSE -1
                   ELSE LET rh == hi % Pow2(s - 24)
                            half == Pow2(s - 25)
                        IN  IF rh > half \/ (rh = half /\ (lo > 0 \/ sticky))
                                THEN 1
                            ELSE IF rh = half THEN 0 ELSE -1
            up == cmp = 1 \/ (cmp = 0 /\ q % 2 = 1)
            m1 == IF up THEN q + 1 ELSE q
            m2 == IF m1 = 16777216 THEN 8388608 ELSE m1
            e2 == IF m1 = 16777216 THEN E + s + 1 ELSE E + s
        IN  IF m2 = 0 THEN F32_ZERO
            ELSE IF e2 > 104 THEN F32_INF
            ELSE [m |-> m2, e |-> e2]

\* x * y in float
f32_mul(x, y) ==
    IF x = F32_INF \/ y = F32_INF THEN F32_INF
    ELSE IF x.m = 0 \/ y.m = 0 THEN F32_ZERO
    ELSE LET xh == x.m \div 4096
             xl == x.m % 4096
             yh == y.m \div 4096
             yl == y.m % 4096
             mid == xh * yl + xl * yh
             low == (mid % 4096) * 4096 + xl * yl
             hi == xh * yh + (mid \div 4096) + (low \div 16777216)
             lo == low % 16777216
         IN  F32Round(hi, lo, FALSE, x.e + y.e)

RECURSIVE LongDiv(_, _, _, _)
\* k more bits of the quotient of r * 2^k by d, appended to q; r < d
LongDiv(q, r, d, k) ==
    IF k = 0 THEN [q |-> q, r |-> r]
    ELSE LET r2 == 2 * r
         IN  IF r2 >= d THEN LongDiv(2 * q + 1, r2 - d, d, k - 1)
             ELSE LongDiv(2 * q, r2, d, k - 1)

\* x / y with a subnormal quotient flushed to zero
f32_div_flushing(x, y) ==
    IF x = F32_INF THEN F32_INF
    ELSE IF x.m = 0 THEN F32_ZERO
    ELSE LET d == LongDiv(x.m \div y.m, x.m % y.m, y.m, 26)
             q == F32Round(d.q \div 16777216, d.q % 16777216, d.r # 0,
                           x.e - y.e - 26)
         IN  IF q # F32_INF /\ q.m < 8388608 THEN F32_ZERO ELSE q

\* x / y in float, y a normal number
f32_div(x, y) ==
    IF x = F32_INF THEN F32_INF
    ELSE IF x.m = 0 THEN F32_ZERO
    ELSE LET d == LongDiv(x.m \div y.m, x.m % y.m, y.m, 26)
         IN  F32Round(d.q \div 16777216, d.q % 16777216, d.r # 0,
                      x.e - y.e - 26)

\* (float)n for an int n >= 0
f32_from_int(n) == F32Round(n \div 16777216, n % 16777216, FALSE, 0)

\* x < y
f32_lt(x, y) ==
    IF x = F32_INF THEN FALSE
    ELSE IF y = F32_INF THEN TRUE
    ELSE IF y.m = 0 THEN FALSE
    ELSE IF x.m = 0 THEN TRUE
    ELSE IF x.e = y.e THEN x.m < y.m
    ELSE x.e < y.e

\* what (int)x yields when x is beyond the range of int, which the language
\* leaves undefined: cvttss2si answers INT_MIN, fcvtzs saturates at INT_MAX
OutOfRangeInts == {0 - 2147483647 - 1, 2147483647}

\* (int)x with the fraction rounded to nearest instead of dropped
f32_to_int_rounded(x, wild) ==
    IF x = F32_INF THEN wild
    ELSE IF x.m = 0 THEN 0
    ELSE IF x.e >= 8 THEN wild
    ELSE IF x.e >= 0 THEN x.m * Pow2(x.e)
    ELSE IF x.e <= 0 - 25 THEN 0
    ELSE (x.m + Pow2((0 - x.e) - 1)) \div Pow2(0 - x.e)

\* (int)x: the fraction is dropped; wild is what the build yields for a
\* value beyond the range of int
f32_to_int(x, wild) ==
    IF x = F32_INF THEN wild
    ELSE IF x.m = 0 THEN 0
    ELSE IF x.e >= 8 THEN wild
    ELSE IF x.e >= 0 THEN x.m * Pow2(x.e)
    ELSE IF x.e <= 0 - 24 THEN 0
    ELSE x.m \div Pow2(0 - x.e)

\* a / b on int: the quotient is truncated toward zero
c_div(a, b) == IF a >= 0 THEN a \div b ELSE 0 - ((0 - a) \div b)

\* ----------------------------------------------------------- SecureMemory
Min(a, b) == IF a <= b THEN a ELSE b

\* the string that starts at byte k (from 1) of s: the pointer s + (k - 1)
StrFrom(s, k) ==
    IF k - 1 <= Len(s.body)
        THEN [s EXCEPT !.body = SubSeq(s.body, k, Len(s.body))]
        ELSE [s EXCEPT !.body = <<>>, !.pad = LogicalLen(s) - (k - 1)]

\* secure_strncpy(dest, src, dest_size): what dest holds afterwards.  strncpy
\* copies the bytes of src before its first NUL, at most dest_size - 1 of
\* them, and the last byte of dest is set to NUL.
secure_strncpy(dest, src, dest_size) ==
    IF dest.null \/ src.null \/ dest_size = 0 THEN dest
    ELSE LET n == Min(strlen(src), dest_size - 1)
         IN  IF n <= Len(src.body)
                 THEN [null |-> FALSE, body |-> SubSeq(src.body, 1, n),
                       fill |-> NUL, pad |-> 0]
                 ELSE [null |-> FALSE, body |-> src.body,
                       fill |-> src.fill, pad |-> n - Len(src.body)]

\* secure_memzero(ptr, size), lines 133-140: the bytes of the block ptr
\* points to afterwards; held = FALSE is ptr = NULL
secure_memzero(held, bytes, size) ==
    IF held /\ size > 0
        THEN [i \in 1..Len(bytes) |-> IF i <= size THEN 0 ELSE bytes[i]]
        ELSE bytes

\* safe_free(ptr), lines 160-166.  p is the caller's pointer variable:
\* p.null says that ptr itself is NULL, p.held that *ptr points to a block,
\* p.bytes are the bytes of that block.  The answer tells whether the block
\* went back to the allocator, the bytes it held at that moment, and what
\* the caller's pointer variable holds afterwards.
safe_free(p) ==
    IF ~p.null /\ p.held
        THEN [released |-> TRUE,
              bytes |-> secure_memzero(p.held, p.bytes, 0),
              held |-> FALSE]
        ELSE [released |-> FALSE, bytes |-> p.bytes, held |-> p.held]

\* a zeroed char array
EmptyStr == [null |-> FALSE, body |-> <<>>, fill |-> NUL, pad |-> 0]

\* ------------------------------------------------------ MetadataExtractor
\* strrchr(s, c) for c # NUL: the index (from 1) of the last c before the
\* terminator, 0 for NULL
strrchr(s, c) ==
    LET hits == {i \in 1..strlen(s) : At(s, i) = c}
    IN  IF hits = {} THEN 0 ELSE SetMax(hits)

tolower(c) == IF c >= 65 /\ c <= 90 THEN c + 32 ELSE c

\* strcasecmp(s, literal) == 0, for a string s of at most 10 bytes
strcasecmp_eq(s, literal) ==
    /\ strlen(s) = Len(literal)
    /\ \A i \in 1..Len(literal) : tolower(At(s, i)) = literal[i]

get_format_name(filepath) ==
    IF filepath.null THEN "Unknown"
    ELSE IF strlen(filepath) = 0 \/ strlen(filepath) > MAX_PATH_LENGTH
        THEN "Unknown"
    ELSE IF strrchr(filepath, DOT) = 0 THEN "Unknown"
    ELSE LET ext == StrFrom(filepath, strrchr(filepath, DOT) + 1)
         IN  IF strlen(ext) > 10 THEN "Unknown"
             ELSE IF strcasecmp_eq(ext, <<112, 110, 103>>) THEN "PNG"
             ELSE IF \/ strcasecmp_eq(ext, <<106, 112, 103>>)
                     \/ strcasecmp_eq(ext, <<106, 112, 101, 103>>) THEN "JPEG"
             ELSE IF strcasecmp_eq(ext, <<98, 109, 112>>) THEN "BMP"
             ELSE IF strcasecmp_eq(ext, <<103, 105, 102>>) THEN "GIF"
             ELSE "Unknown"

\* ImageMetadata metadata = {0}
ZeroMetadata ==
    [filename |-> EmptyStr, filepath |-> EmptyStr, width |-> 0, height |-> 0,
     file_size |-> 0, bits_per_pixel |-> 0, format |-> "",
     creation_time |-> 0, modification_time |-> 0]

\* lines 317-325: the part of the path the file name is taken from
Basename(filepath) ==
    LET slash == strrchr(filepath, SLASH)
        sep == IF slash = 0 THEN strrchr(filepath, BACKSLASH) ELSE slash
    IN  IF sep # 0 THEN StrFrom(filepath, sep + 1) ELSE filepath

\* lines 335-349: the stat block of extract_metadata; ok = FALSE is return 0
StatBlock_unguarded(md, st) ==
    IF st.ok
        THEN [ok |-> TRUE,
              md |-> [md EXCEPT !.file_size = st.st_size,
                                !.creation_time = st.st_ctime,
                                !.modification_time = st.st_mtime]]
        ELSE [ok |-> TRUE,
              md |-> [md EXCEPT !.file_size = 0, !.creation_time = 0,
                                !.modification_time = 0]]

StatBlock(md, st) ==
    IF st.ok
        THEN IF validate_image_size(st.st_size) # SECURITY_OK
                 THEN [ok |-> FALSE, md |-> md]
                 ELSE [ok |-> TRUE,
                       md |-> [md EXCEPT !.file_size = st.st_size,
                                         !.creation_time = st.st_ctime,
                                         !.modification_time = st.st_mtime]]
        ELSE [ok |-> TRUE,
              md |-> [md EXCEPT !.file_size = 0, !.creation_time = 0,
                                !.modification_time = 0]]

\* lines 351-361: the decode block
DecodeBlock(md, dec) ==
    IF ~dec.null
        THEN [md EXCEPT !.width = dec.w, !.height = dec.h,
                        !.bits_per_pixel = dec.bpp]
        ELSE [md EXCEPT !.width = 0, !.height = 0, !.bits_per_pixel = 0]

\* extract_metadata(filepath, &metadata) where stat answers st and IMG_Load
\* answers dec: the return value and the record as the call leaves it
extract_metadata(filepath, metadata, st, dec) ==
    IF filepath.null THEN [rc |-> 0, md |-> metadata]
    ELSE IF validate_filepath(filepath) # SECURITY_OK
        THEN [rc |-> 0, md |-> metadata]
    ELSE LET md1 == [metadata EXCEPT
                        !.filepath = secure_strncpy(@, filepath, 512)]
             md2 == [md1 EXCEPT
                        !.filename = secure_strncpy(@, Basename(filepath), 256)]
             san == sanitize_filename(md2.filename, 256)
             md3 == [md2 EXCEPT !.filename = san.out]
             md4 == [md3 EXCEPT !.format = get_format_name(filepath)]
             sb == StatBlock(md4, st)
         IN  IF san.rc # SECURITY_OK THEN [rc |-> 0, md |-> md3]
             ELSE IF ~sb.ok THEN [rc |-> 0, md |-> md4]
             ELSE [rc |-> 1, md |-> DecodeBlock(sb.md, dec)]

\* ================================================================== state
\* "none" for the surface pointer NULL
NoSurface == [w |-> 0, h |-> 0, bpp |-> 0, null |-> TRUE]

\* a decoded surface of w x h pixels, 32 bits each
Surface(w, h) == [w |-> w, h |-> h, bpp |-> 32, null |-> FALSE]

\* App app = {0}: every pointer NULL (0), every number 0
ZeroApp ==
    [window |-> 0, renderer |-> 0, image_texture |-> 0,
     window_width |-> 0, window_height |-> 0,
     image_width |-> 0, image_height |-> 0,
     running |-> 0, zoom |-> F32_ZERO, pan_x |-> 0, pan_y |-> 0,
     fit_to_window |-> 0, show_info |-> 0]

\* the fields initialize_sdl sets once window and renderer exist
InitializedApp ==
    [window |-> 1, renderer |-> 1, image_texture |-> 0,
     window_width |-> WINDOW_WIDTH, window_height |-> WINDOW_HEIGHT,
     image_width |-> 0, image_height |-> 0,
     running |-> 1, zoom |-> F32_ONE, pan_x |-> 0, pan_y |-> 0,
     fit_to_window |-> 1, show_info |-> 0]

\* --------------------------------------------------------- ViewportEngine
\* render_image returned before it drew the image
NoRect == [drawn |-> FALSE, x |-> 0, y |-> 0, w |-> 0, h |-> 0]

\* the dest_rect the image is copied to
Rect(x, y, w, h) == [drawn |-> TRUE, x |-> x, y |-> y, w |-> w, h |-> h]

\* lines 447-461 with the comparison of line 451 turned around
dest_rect_fit_swapped(a, wild) ==
    LET aspect_ratio == f32_div(f32_from_int(a.image_width),
                                f32_from_int(a.image_height))
        window_aspect_ratio == f32_div(f32_from_int(a.window_width),
                                       f32_from_int(a.window_height))
    IN  IF f32_lt(aspect_ratio, window_aspect_ratio)
            THEN LET h == f32_to_int(f32_div(f32_from_int(a.window_width),
                                             aspect_ratio), wild)
                 IN  Rect(0, c_div(a.window_height - h, 2), a.window_width, h)
            ELSE LET w == f32_to_int(f32_mul(f32_from_int(a.window_height),
                                             aspect_ratio), wild)
                 IN  Rect(c_div(a.window_width - w, 2), 0, w, a.window_height)

\* lines 447-461: fit to window
dest_rect_fit(a, wild) ==
    LET aspect_ratio == f32_div(f32_from_int(a.image_width),
                                f32_from_int(a.image_height))
        window_aspect_ratio == f32_div(f32_from_int(a.window_width),
                                       f32_from_int(a.window_height))
    IN  IF f32_lt(window_aspect_ratio, aspect_ratio)
            THEN LET h == f32_to_int(f32_div(f32_from_int(a.window_width),
                                             aspect_ratio), wild)
                 IN  Rect(0, c_div(a.window_height - h, 2), a.window_width, h)
            ELSE LET w == f32_to_int(f32_mul(f32_from_int(a.window_height),
                                             aspect_ratio), wild)
                 IN  Rect(c_div(a.window_width - w, 2), 0, w, a.window_height)

\* lines 463-472: free zoom and pan
dest_rect_free(a, wild) ==
    LET w == f32_to_int(f32_mul(f32_from_int(a.image_width), a.zoom), wild)
        h == f32_to_int(f32_mul(f32_from_int(a.image_height), a.zoom), wild)
    IN  IF w <= 0 \/ h <= 0 \/ w > 65536 \/ h > 65536 THEN NoRect
        ELSE Rect(a.pan_x + c_div(a.window_width - w, 2),
                  a.pan_y + c_div(a.window_height - h, 2), w, h)

\* render_image, lines 437-487: the rectangle the texture is copied to;
\* nothing is copied when no texture is held
render_image(a, wild) ==
    IF a.image_texture = 0 THEN NoRect
    ELSE IF a.fit_to_window # 0 THEN dest_rect_fit(a, wild)
    ELSE dest_rect_free(a, wild)

VARIABLES
    fn,     \* the validation function last called on its own
    arg,    \* its argument
    res,    \* [done, rc, out]: what it returned, what it wrote
    app,            \* the App struct
    liveTextures,   \* the textures created and not yet destroyed
    texSource,      \* per texture, <<w, h>> of the surface it was built from
    lpc,            \* where load_image_secure stands
    image_path,     \* its argument
    file_stat,      \* file_stat.st_size
    surface,        \* its local surface
    result,         \* what it returned
    calls,          \* the library calls it has made, in order
    app0,           \* the App struct as it was when the call began
    display,        \* [live, shown]: a window exists; one has been shown
    mpc,            \* where main stands
    argv,           \* the command line after the program name
    metadata,       \* main's ImageMetadata
    exit_code,      \* what main returned
    nevents,        \* the events polled so far
    recent,         \* the last two events handled, each with the App
                    \* struct it found (kept when the events are fed alone)
    held_key        \* the key held down and repeating, "" for none

pureVars == <<fn, arg, res>>

mainVars == <<mpc, argv, metadata, exit_code, nevents>>

inputVars == <<recent, held_key>>

\* what load_image_secure leaves alone apart from app
callerVars ==
    <<fn, arg, res, mpc, argv, metadata, exit_code, nevents, display, recent,
      held_key>>

rendererVars == <<liveTextures, texSource>>

loadVars == <<lpc, image_path, file_stat, surface, result, calls, app0>>

vars == <<fn, arg, res, app, liveTextures, texSource, lpc, image_path,
          file_stat, surface, result, calls, app0, display, mpc, argv,
          metadata, exit_code, nevents, recent, held_key>>

TexIds == 1..NumTex

\* ---------------------------------------------------------------- inputs
\* bytes a path is built from: NUL  .  /  a
PathAlphabet == {NUL, DOT, SLASH, 97}

\* bytes a long path is padded with
FillBytes == {97, DOT}

\* paddings that take a path to MAX_PATH_LENGTH and just around it
PadLens == (MAX_PATH_LENGTH - 3)..MAX_PATH_LENGTH

PathsOver(n) ==
    {Str(b, 97, 0) : b \in SeqsUpTo(PathAlphabet, n)}
    \cup {Str(b, f, k) : b \in SeqsUpTo(PathAlphabet, n), f \in FillBytes,
                         k \in PadLens}

Paths == PathsOver(MaxBody) \cup {NullStr}

\* the paths handed to the loader: the short ones, and dots up to the
\* two lengths on either side of MAX_PATH_LENGTH
LoadPaths ==
    {Str(b, 97, 0) : b \in SeqsUpTo(PathAlphabet, MaxLoadBody)}
    \cup {Str(b, DOT, k) : b \in SeqsUpTo(PathAlphabet, MaxLoadBody - 1),
                           k \in {MAX_PATH_LENGTH - 2, MAX_PATH_LENGTH - 1}}
    \cup {NullStr}

\* what stat can report: failure, or st_size
StatFailed == [ok |-> FALSE, st_size |-> 0, st_ctime |-> 0, st_mtime |-> 0]

\* a file of z bytes, created at second 1 and modified at second 2
StatOk(z) == [ok |-> TRUE, st_size |-> z, st_ctime |-> 1, st_mtime |-> 2]

StatSizes == {0, MAX_FILE_SIZE, MAX_FILE_SIZE + 1, 150 * 1024 * 1024}

\* what a decoded surface can measure on either axis
DecodeDims == {0, 1, MAX_DIMENSION, MAX_DIMENSION + 1}

StatOutcomes == {StatFailed} \cup {StatOk(z) : z \in StatSizes}

DecodeOutcomes ==
    {NoSurface} \cup {Surface(w, h) : w \in DecodeDims, h \in DecodeDims}

\* bytes a file name is built from: NUL, a control byte, tab, space, the
\* seven reserved bytes, _ , a , DEL and a byte above 127
NameAlphabet == {NUL, 1, 9, 32, UNDERSCORE, 97, 127, 200} \cup ReservedBytes

Names ==
    {Str(b, 97, k) : b \in SeqsUpTo(NameAlphabet, MaxNameLen),
                     k \in {0, MAX_FILENAME_LENGTH - 2}}
    \cup {NullStr}

NameBounds == {0, 1, 2, 3, MAX_FILENAME_LENGTH}

Sizes ==
    ((0 - SizeSpan)..SizeSpan)
    \cup ((MAX_FILE_SIZE - SizeSpan)..(MAX_FILE_SIZE + SizeSpan))
    \cup {150 * 1024 * 1024, 2147483647, 0 - 2147483647}

\* the paths handed to extract_metadata: those above and the ones built
\* from both separators
ExtractPaths ==
    LoadPaths
    \cup {Str(b, 97, 0) : b \in SeqsUpTo({SLASH, BACKSLASH, 97}, MaxBody)}
    \cup {Str(b, 97, MAX_FILENAME_LENGTH - 1) :
              b \in SeqsUpTo({SLASH, 63}, MaxLoadBody)}

RECURSIVE ZoomIn(_)
\* zoom after n presses of + from 1.0f
ZoomIn(n) == IF n = 0 THEN F32_ONE ELSE f32_mul(ZoomIn(n - 1), F32_1_2)

\* zoom values a frame is drawn with: 1.0f; one to four presses of +; one
\* press of -; one notch of the wheel either way; and the two values the
\* zoom keys end at when held, +infinity and 2 * 2^-149
RenderZooms ==
    {F32_ONE, ZoomIn(1), ZoomIn(2), ZoomIn(3), ZoomIn(4),
     f32_div(F32_ONE, F32_1_2), f32_mul(F32_ONE, F32_1_1),
     f32_div(F32_ONE, F32_1_1), F32_INF, [m |-> 2, e |-> 0 - 149]}

\* image sizes of a held texture
RenderDims == {1, 3, 7, 16, MAX_DIMENSION}

\* window sizes: the initial one, those of WindowSizes, a narrow one, the
\* largest an X11 window can be, and one wider than float holds exactly
RenderWindows ==
    {<<WINDOW_WIDTH, WINDOW_HEIGHT>>, <<1, 1>>, <<640, 480>>, <<1, 8>>,
     <<65535, 1>>, <<65535, 65535>>, <<32767999, 1000>>}

\* pan offsets handed to render_image
RenderPans == {<<0, 0>>, <<7, 0 - 3>>}

\* the App structs render_image is called with
RenderApps ==
    {[InitializedApp EXCEPT !.image_texture = 1,
                            !.image_width = iw, !.image_height = ih,
                            !.window_width = win[1], !.window_height = win[2],
                            !.zoom = z, !.pan_x = pan[1], !.pan_y = pan[2],
                            !.fit_to_window = fit] :
         iw \in RenderDims, ih \in RenderDims, win \in RenderWindows,
         z \in RenderZooms, pan \in RenderPans, fit \in {0, 1}}
    \cup {[InitializedApp EXCEPT !.window_width = win[1],
                                 !.window_height = win[2],
                                 !.fit_to_window = fit] :
              win \in RenderWindows, fit \in {0, 1}}

\* the blocks handed to safe_free: up to two bytes, zero or not
FreeBlocks == SeqsUpTo({NUL, 97}, 2)

\* the pointer variables handed to safe_free: NULL, one that holds NULL, one
\* that holds a block
FreeArgs ==
    {[null |-> TRUE, held |-> FALSE, bytes |-> <<>>],
     [null |-> FALSE, held |-> FALSE, bytes |-> <<>>]}
    \cup {[null |-> FALSE, held |-> TRUE, bytes |-> b] : b \in FreeBlocks}

\* ======================================================= the functions alone
\* One call of one validation function per behaviour: the initial state holds
\* the function and its argument, the action applies the function.
\* no call made yet
Pending == [done |-> FALSE, rc |-> SECURITY_OK, out |-> NullStr]

Returned(rc, out) == [done |-> TRUE, rc |-> rc, out |-> out]

\* nothing loaded, no call of load_image_secure under way
LoaderIdle ==
    /\ liveTextures = {}
    /\ texSource = [t \in TexIds |-> <<0, 0>>]
    /\ lpc = "idle"
    /\ image_path = NullStr
    /\ file_stat = 0
    /\ surface = NoSurface
    /\ result = SECURITY_OK
    /\ calls = <<>>

\* main is not running: the functions are called from outside it
NoMain ==
    /\ mpc = "api"
    /\ argv = <<>>
    /\ metadata = ZeroMetadata
    /\ exit_code = 0
    /\ nevents = 0
    /\ recent = <<>>
    /\ held_key = ""

InitPure ==
    /\ res = Pending
    /\ app = ZeroApp /\ app0 = ZeroApp
    /\ display = [live |-> FALSE, shown |-> FALSE]
    /\ LoaderIdle
    /\ NoMain
    /\ \/ fn = "validate_filepath" /\ arg \in Paths
       \/ /\ fn = "sanitize_filename"
          /\ arg \in [filename : Names, max_len : NameBounds]
       \/ fn = "validate_image_size" /\ arg \in Sizes
       \/ /\ fn = "extract_metadata"
          /\ arg \in [filepath : ExtractPaths, stat : StatOutcomes,
                       decode : DecodeOutcomes]
       \/ fn = "render_image" /\ arg \in RenderApps
       \/ fn = "safe_free" /\ arg \in FreeArgs

ValidateFilepath ==
    /\ fn = "validate_filepath" /\ ~res.done
    /\ res' = Returned(validate_filepath(arg), arg)
    /\ UNCHANGED <<fn, arg, app, rendererVars, loadVars, mainVars, inputVars,
                   display>>

SanitizeFilename ==
    /\ fn = "sanitize_filename" /\ ~res.done
    /\ res' = LET r == sanitize_filename(arg.filename, arg.max_len)
              IN  Returned(r.rc, r.out)
    /\ UNCHANGED <<fn, arg, app, rendererVars, loadVars, mainVars, inputVars,
                   display>>

ValidateImageSize ==
    /\ fn = "validate_image_size" /\ ~res.done
    /\ res' = Returned(validate_image_size(arg), NullStr)
    /\ UNCHANGED <<fn, arg, app, rendererVars, loadVars, mainVars, inputVars,
                   display>>

ExtractMetadata ==
    /\ fn = "extract_metadata" /\ ~res.done
    /\ res' = LET r == extract_metadata(arg.filepath, ZeroMetadata, arg.stat,
                                        arg.decode)
              IN  Returned(r.rc, r.md)
    /\ UNCHANGED <<fn, arg, app, rendererVars, loadVars, mainVars, inputVars,
                   display>>

\* render_image(&arg): the frame it draws
RenderImage ==
    /\ fn = "render_image" /\ ~res.done
    /\ \E wild \in OutOfRangeInts :
          res' = Returned(SECURITY_OK, render_image(arg, wild))
    /\ UNCHANGED <<fn, arg, app, rendererVars, loadVars, mainVars, inputVars,
                   display>>

\* safe_free(&arg)
SafeFree ==
    /\ fn = "safe_free" /\ ~res.done
    /\ res' = Returned(SECURITY_OK, safe_free(arg))
    /\ UNCHANGED <<fn, arg, app, rendererVars, loadVars, mainVars, inputVars,
                   display>>

NextPure ==
    \/ ValidateFilepath
    \/ SanitizeFilename
    \/ ValidateImageSize
    \/ ExtractMetadata
    \/ RenderImage
    \/ SafeFree

SpecPure == InitPure /\ [][NextPure]_vars

\* ============================================================== ImageLoader
\* load_image_secure, one action per step between two library calls.
\* A return leaves the locals in place at lpc = "return"; LoadReturn hands
\* control back to the caller.
Return(r) ==
    /\ result' = r
    /\ lpc' = "return"

\* SDL_DestroyTexture(t): the handle is released
SDL_DestroyTexture(t) ==
    /\ liveTextures' = liveTextures \ {t}
    /\ texSource' = [texSource EXCEPT ![t] = <<0, 0>>]

\* a caller enters load_image_secure(&app, p)
Enter(p) ==
    /\ lpc' = "entry"
    /\ image_path' = p
    /\ file_stat' = 0
    /\ surface' = NoSurface
    /\ calls' = <<>>
    /\ app0' = app
    /\ result' = SECURITY_OK

\* lines 229-236: the NULL test and validate_filepath
LoadValidate ==
    /\ lpc = "entry"
    /\ IF image_path.null
           THEN Return(SECURITY_ERROR_INVALID_INPUT)
           ELSE LET r == validate_filepath(image_path)
                IN  IF r # SECURITY_OK
                        THEN Return(r)
                        ELSE lpc' = "stat" /\ UNCHANGED result
    /\ UNCHANGED <<callerVars, app, rendererVars, image_path, file_stat,
                   surface, calls, app0>>

\* lines 238-241: stat
LoadStat ==
    /\ lpc = "stat"
    /\ calls' = Append(calls, "stat")
    /\ \E st \in StatOutcomes :
          IF ~st.ok
              THEN Return(SECURITY_ERROR_ACCESS_DENIED) /\ UNCHANGED file_stat
              ELSE /\ file_stat' = st.st_size
                   /\ lpc' = "size"
                   /\ UNCHANGED result
    /\ UNCHANGED <<callerVars, app, rendererVars, image_path, surface, app0>>

\* lines 243-246 without the test of the result
LoadSize_unchecked ==
    /\ lpc = "size"
    /\ lpc' = "decode"
    /\ UNCHANGED <<callerVars, app, rendererVars, image_path, file_stat,
                   surface, result, calls, app0>>

\* lines 243-246: validate_image_size
LoadSize ==
    /\ lpc = "size"
    /\ IF validate_image_size(file_stat) # SECURITY_OK
           THEN Return(validate_image_size(file_stat))
           ELSE lpc' = "decode" /\ UNCHANGED result
    /\ UNCHANGED <<callerVars, app, rendererVars, image_path, file_stat,
                   surface, calls, app0>>

\* lines 248-251: IMG_Load
LoadDecode ==
    /\ lpc = "decode"
    /\ calls' = Append(calls, "IMG_Load")
    /\ \E s \in DecodeOutcomes :
          /\ surface' = s
          /\ IF s.null
                 THEN Return(SECURITY_ERROR_ACCESS_DENIED)
                 ELSE lpc' = "dimensions" /\ UNCHANGED result
    /\ UNCHANGED <<callerVars, app, rendererVars, image_path, file_stat, app0>>

\* lines 253-256 with < 0 for <= 0
LoadDimensions_zero_allowed ==
    /\ lpc = "dimensions"
    /\ IF \/ surface.w < 0 \/ surface.h < 0
          \/ surface.w > MAX_DIMENSION \/ surface.h > MAX_DIMENSION
           THEN /\ calls' = Append(calls, "SDL_FreeSurface")
                /\ Return(SECURITY_ERROR_INVALID_INPUT)
           ELSE /\ lpc' = "destroy"
                /\ UNCHANGED <<result, calls>>
    /\ UNCHANGED <<callerVars, app, rendererVars, image_path, file_stat,
                   surface, app0>>

\* lines 253-256: the bounds on the decoded dimensions
LoadDimensions ==
    /\ lpc = "dimensions"
    /\ IF \/ surface.w <= 0 \/ surface.h <= 0
          \/ surface.w > MAX_DIMENSION \/ surface.h > MAX_DIMENSION
           THEN /\ calls' = Append(calls, "SDL_FreeSurface")
                /\ Return(SECURITY_ERROR_INVALID_INPUT)
           ELSE /\ lpc' = "destroy"
                /\ UNCHANGED <<result, calls>>
    /\ UNCHANGED <<callerVars, app, rendererVars, image_path, file_stat,
                   surface, app0>>

\* lines 258-261 skipped: the held texture is left alive
LoadDestroy_skipped ==
    /\ lpc = "destroy"
    /\ lpc' = "create"
    /\ UNCHANGED <<callerVars, app, rendererVars, image_path, file_stat,
                   surface, result, calls, app0>>

\* lines 258-261: the held texture is destroyed
LoadDestroy ==
    /\ lpc = "destroy"
    /\ IF app.image_texture # 0
           THEN /\ SDL_DestroyTexture(app.image_texture)
                /\ calls' = Append(calls, "SDL_DestroyTexture")
                /\ app' = [app EXCEPT !.image_texture = 0]
           ELSE UNCHANGED <<rendererVars, calls, app>>
    /\ lpc' = "create"
    /\ UNCHANGED <<callerVars, image_path, file_stat, surface, result, app0>>

\* lines 263-267 without the SDL_FreeSurface of line 265
LoadCreate_leaks ==
    /\ lpc = "create"
    /\ \E t \in (TexIds \ liveTextures) \cup {0} :
          /\ app' = [app EXCEPT !.image_texture = t]
          /\ calls' = Append(calls, "SDL_CreateTextureFromSurface")
          /\ IF t = 0
                 THEN /\ Return(SECURITY_ERROR_MEMORY_ALLOCATION)
                      /\ UNCHANGED rendererVars
                 ELSE /\ liveTextures' = liveTextures \cup {t}
                      /\ texSource' =
                             [texSource EXCEPT ![t] = <<surface.w, surface.h>>]
                      /\ lpc' = "commit"
                      /\ UNCHANGED result
    /\ UNCHANGED <<callerVars, image_path, file_stat, surface, app0>>

\* lines 263-267 with the stores of lines 269-270 moved before the NULL test
LoadCreate_sets_dimensions ==
    /\ lpc = "create"
    /\ \E t \in (TexIds \ liveTextures) \cup {0} :
          /\ app' = [app EXCEPT !.image_texture = t,
                                !.image_width = surface.w,
                                !.image_height = surface.h]
          /\ IF t = 0
                 THEN /\ calls' = calls \o <<"SDL_CreateTextureFromSurface",
                                             "SDL_FreeSurface">>
                      /\ Return(SECURITY_ERROR_MEMORY_ALLOCATION)
                      /\ UNCHANGED rendererVars
                 ELSE /\ calls' = Append(calls, "SDL_CreateTextureFromSurface")
                      /\ liveTextures' = liveTextures \cup {t}
                      /\ texSource' =
                             [texSource EXCEPT ![t] = <<surface.w, surface.h>>]
                      /\ lpc' = "commit"
                      /\ UNCHANGED result
    /\ UNCHANGED <<callerVars, image_path, file_stat, surface, app0>>

\* lines 263-267: SDL_CreateTextureFromSurface hands out a handle that is
\* not in use, or NULL
LoadCreate ==
    /\ lpc = "create"
    /\ \E t \in (TexIds \ liveTextures) \cup {0} :
          /\ app' = [app EXCEPT !.image_texture = t]
          /\ IF t = 0
                 THEN /\ calls' = calls \o <<"SDL_CreateTextureFromSurface",
                                             "SDL_FreeSurface">>
                      /\ Return(SECURITY_ERROR_MEMORY_ALLOCATION)
                      /\ UNCHANGED rendererVars
                 ELSE /\ calls' = Append(calls, "SDL_CreateTextureFromSurface")
                      /\ liveTextures' = liveTextures \cup {t}
                      /\ texSource' =
                             [texSource EXCEPT ![t] = <<surface.w, surface.h>>]
                      /\ lpc' = "commit"
                      /\ UNCHANGED result
    /\ UNCHANGED <<callerVars, image_path, file_stat, surface, app0>>

\* lines 269-273 with the height left as it was
LoadCommit_width_only ==
    /\ lpc = "commit"
    /\ app' = [app EXCEPT !.image_width = surface.w]
    /\ calls' = Append(calls, "SDL_FreeSurface")
    /\ Return(SECURITY_OK)
    /\ UNCHANGED <<callerVars, rendererVars, image_path, file_stat, surface,
                   app0>>

\* lines 269-273: the dimensions are stored, the surface freed
LoadCommit ==
    /\ lpc = "commit"
    /\ app' = [app EXCEPT !.image_width = surface.w,
                          !.image_height = surface.h]
    /\ calls' = Append(calls, "SDL_FreeSurface")
    /\ Return(SECURITY_OK)
    /\ UNCHANGED <<callerVars, rendererVars, image_path, file_stat, surface,
                   app0>>

\* control is back with the caller; the locals are gone
LoadReturn ==
    /\ lpc = "return"
    /\ lpc' = "idle"
    /\ image_path' = NullStr
    /\ file_stat' = 0
    /\ surface' = NoSurface
    /\ calls' = <<>>
    /\ app0' = app
    /\ UNCHANGED <<callerVars, app, rendererVars, result>>

LoadSteps ==
    \/ LoadValidate
    \/ LoadStat
    \/ LoadSize
    \/ LoadDecode
    \/ LoadDimensions
    \/ LoadDestroy
    \/ LoadCreate
    \/ LoadCommit
    \/ LoadReturn

\* cleanup, lines 656-675: texture, renderer and window are destroyed and
\* the struct is wiped
cleanup ==
    /\ IF app.image_texture # 0
           THEN SDL_DestroyTexture(app.image_texture)
           ELSE UNCHANGED rendererVars
    /\ display' = [display EXCEPT !.live = FALSE]
    /\ app' = ZeroApp

\* --------------------------------------- the loader under any caller
\* The viewer is up (initialize_sdl has returned 1); the caller loads any
\* path any number of times, then cleans up.
InitLoad ==
    /\ fn = "none" /\ arg = NullStr
    /\ res = Pending
    /\ app = InitializedApp /\ app0 = InitializedApp
    /\ display = [live |-> TRUE, shown |-> TRUE]
    /\ LoaderIdle
    /\ NoMain

LoadCall ==
    /\ mpc = "api" /\ lpc = "idle" /\ app.running = 1
    /\ \E p \in LoadPaths : Enter(p)
    /\ UNCHANGED <<callerVars, app, rendererVars>>

Cleanup ==
    /\ mpc = "api" /\ lpc = "idle" /\ app.running = 1
    /\ cleanup
    /\ app0' = ZeroApp
    /\ UNCHANGED <<pureVars, inputVars, mainVars, lpc, image_path, file_stat, surface,
                   result, calls>>

NextLoad ==
    \/ LoadCall
    \/ LoadSteps
    \/ Cleanup

SpecLoad == InitLoad /\ [][NextLoad]_vars

\* ================================================= InteractionStateMachine
\* an SDL_Event: its type and the fields handle_events reads
Event(type, code, a, b) == [type |-> type, code |-> code, a |-> a, b |-> b]

\* key symbols: the ten of the switch and one that is not there
KeySyms ==
    {"SDLK_ESCAPE", "SDLK_PLUS", "SDLK_EQUALS", "SDLK_MINUS", "SDLK_f",
     "SDLK_1", "SDLK_i", "SDLK_LEFT", "SDLK_RIGHT", "SDLK_a"}

\* sizes a resize can report
WindowSizes == {<<1, 1>>, <<640, 480>>}

Events ==
    {Event("SDL_QUIT", "", 0, 0), Event("SDL_MOUSEMOTION", "", 0, 0)}
    \cup {Event("SDL_WINDOWEVENT", "SDL_WINDOWEVENT_RESIZED", s[1], s[2]) :
              s \in WindowSizes}
    \cup {Event("SDL_WINDOWEVENT", "SDL_WINDOWEVENT_EXPOSED", 0, 0)}
    \cup {Event("SDL_KEYDOWN", k, 0, 0) : k \in KeySyms}
    \cup {Event("SDL_MOUSEWHEEL", "", 0, y) : y \in {-1, 0, 1}}

\* the switch of lines 551-583 with a pan step in the empty case SDLK_LEFT
key_down_left_pans(a, sym) ==
    IF sym = "SDLK_ESCAPE" THEN [a EXCEPT !.running = 0]
    ELSE IF sym \in {"SDLK_PLUS", "SDLK_EQUALS"}
        THEN [a EXCEPT !.zoom = f32_mul(@, F32_1_2), !.fit_to_window = 0]
    ELSE IF sym = "SDLK_MINUS"
        THEN [a EXCEPT !.zoom = f32_div(@, F32_1_2), !.fit_to_window = 0]
    ELSE IF sym = "SDLK_f"
        THEN [a EXCEPT !.fit_to_window = 1, !.zoom = F32_ONE,
                       !.pan_x = 0, !.pan_y = 0]
    ELSE IF sym = "SDLK_1"
        THEN [a EXCEPT !.fit_to_window = 0, !.zoom = F32_ONE,
                       !.pan_x = 0, !.pan_y = 0]
    ELSE IF sym = "SDLK_i"
        THEN [a EXCEPT !.show_info = IF @ = 0 THEN 1 ELSE 0]
    ELSE IF sym = "SDLK_LEFT" THEN [a EXCEPT !.pan_x = @ - 10]
    ELSE a

\* the switch of lines 551-583 without the store of line 566
key_down_fit_keeps_zoom(a, sym) ==
    IF sym = "SDLK_ESCAPE" THEN [a EXCEPT !.running = 0]
    ELSE IF sym \in {"SDLK_PLUS", "SDLK_EQUALS"}
        THEN [a EXCEPT !.zoom = f32_mul(@, F32_1_2), !.fit_to_window = 0]
    ELSE IF sym = "SDLK_MINUS"
        THEN [a EXCEPT !.zoom = f32_div(@, F32_1_2), !.fit_to_window = 0]
    ELSE IF sym = "SDLK_f"
        THEN [a EXCEPT !.fit_to_window = 1, !.pan_x = 0, !.pan_y = 0]
    ELSE IF sym = "SDLK_1"
        THEN [a EXCEPT !.fit_to_window = 0, !.zoom = F32_ONE,
                       !.pan_x = 0, !.pan_y = 0]
    ELSE IF sym = "SDLK_i"
        THEN [a EXCEPT !.show_info = IF @ = 0 THEN 1 ELSE 0]
    ELSE IF sym = "SDLK_LEFT" THEN a
    ELSE a

\* the switch of lines 551-583 with show_info set instead of negated
key_down_info_set(a, sym) ==
    IF sym = "SDLK_ESCAPE" THEN [a EXCEPT !.running = 0]
    ELSE IF sym \in {"SDLK_PLUS", "SDLK_EQUALS"}
        THEN [a EXCEPT !.zoom = f32_mul(@, F32_1_2), !.fit_to_window = 0]
    ELSE IF sym = "SDLK_MINUS"
        THEN [a EXCEPT !.zoom = f32_div(@, F32_1_2), !.fit_to_window = 0]
    ELSE IF sym = "SDLK_f"
        THEN [a EXCEPT !.fit_to_window = 1, !.zoom = F32_ONE,
                       !.pan_x = 0, !.pan_y = 0]
    ELSE IF sym = "SDLK_1"
        THEN [a EXCEPT !.fit_to_window = 0, !.zoom = F32_ONE,
                       !.pan_x = 0, !.pan_y = 0]
    ELSE IF sym = "SDLK_i"
        THEN [a EXCEPT !.show_info = 1]
    ELSE IF sym = "SDLK_LEFT" THEN a
    ELSE a

\* the switch of lines 551-583 with a pan step in the empty case SDLK_RIGHT
key_down_right_pans(a, sym) ==
    IF sym = "SDLK_ESCAPE" THEN [a EXCEPT !.running = 0]
    ELSE IF sym \in {"SDLK_PLUS", "SDLK_EQUALS"}
        THEN [a EXCEPT !.zoom = f32_mul(@, F32_1_2), !.fit_to_window = 0]
    ELSE IF sym = "SDLK_MINUS"
        THEN [a EXCEPT !.zoom = f32_div(@, F32_1_2), !.fit_to_window = 0]
    ELSE IF sym = "SDLK_f"
        THEN [a EXCEPT !.fit_to_window = 1, !.zoom = F32_ONE,
                       !.pan_x = 0, !.pan_y = 0]
    ELSE IF sym = "SDLK_1"
        THEN [a EXCEPT !.fit_to_window = 0, !.zoom = F32_ONE,
                       !.pan_x = 0, !.pan_y = 0]
    ELSE IF sym = "SDLK_i"
        THEN [a EXCEPT !.show_info = IF @ = 0 THEN 1 ELSE 0]
    ELSE IF sym = "SDLK_LEFT" THEN a
    ELSE IF sym = "SDLK_RIGHT" THEN [a EXCEPT !.pan_x = @ + 10]
    ELSE a

\* the switch on event.key.keysym.sym, lines 551-583
key_down(a, sym) ==
    IF sym = "SDLK_ESCAPE" THEN [a EXCEPT !.running = 0]
    ELSE IF sym \in {"SDLK_PLUS", "SDLK_EQUALS"}
        THEN [a EXCEPT !.zoom = f32_mul(@, F32_1_2), !.fit_to_window = 0]
    ELSE IF sym = "SDLK_MINUS"
        THEN [a EXCEPT !.zoom = f32_div(@, F32_1_2), !.fit_to_window = 0]
    ELSE IF sym = "SDLK_f"
        THEN [a EXCEPT !.fit_to_window = 1, !.zoom = F32_ONE,
                       !.pan_x = 0, !.pan_y = 0]
    ELSE IF sym = "SDLK_1"
        THEN [a EXCEPT !.fit_to_window = 0, !.zoom = F32_ONE,
                       !.pan_x = 0, !.pan_y = 0]
    ELSE IF sym = "SDLK_i"
        THEN [a EXCEPT !.show_info = IF @ = 0 THEN 1 ELSE 0]
    ELSE IF sym = "SDLK_LEFT" THEN a
    ELSE a

\* case SDL_MOUSEWHEEL, lines 585-593
mouse_wheel(a, y) ==
    IF y > 0
        THEN [a EXCEPT !.zoom = f32_mul(@, F32_1_1), !.fit_to_window = 0]
    ELSE IF y < 0
        THEN [a EXCEPT !.zoom = f32_div(@, F32_1_1), !.fit_to_window = 0]
    ELSE a

\* the body of the loop of handle_events, lines 540-594, for one event
handle_event(a, event) ==
    IF event.type = "SDL_QUIT" THEN [a EXCEPT !.running = 0]
    ELSE IF event.type = "SDL_WINDOWEVENT" THEN
        IF event.code = "SDL_WINDOWEVENT_RESIZED"
            THEN [a EXCEPT !.window_width = event.a, !.window_height = event.b]
            ELSE a
    ELSE IF event.type = "SDL_KEYDOWN" THEN key_down(a, event.code)
    ELSE IF event.type = "SDL_MOUSEWHEEL" THEN mouse_wheel(a, event.b)
    ELSE a

\* ------------------------------------------ handle_events fed any events
\* the viewer as main's loop finds it: initialised, nothing loaded
ViewerEmpty ==
    /\ app = InitializedApp
    /\ liveTextures = {}
    /\ texSource = [t \in TexIds |-> <<0, 0>>]

\* the viewer as main's loop finds it: initialised, a 16 x 7 image loaded
ViewerLoaded ==
    /\ app = [InitializedApp EXCEPT !.image_texture = 1, !.image_width = 16,
                                    !.image_height = 7]
    /\ liveTextures = {1}
    /\ texSource = [t \in TexIds |-> IF t = 1 THEN <<16, 7>> ELSE <<0, 0>>]

InitEvents ==
    /\ fn = "none" /\ arg = NullStr /\ res = Pending
    /\ ViewerEmpty \/ ViewerLoaded
    /\ app0 = app
    /\ display = [live |-> TRUE, shown |-> TRUE]
    /\ lpc = "idle" /\ image_path = NullStr /\ file_stat = 0
    /\ surface = NoSurface /\ result = SECURITY_OK /\ calls = <<>>
    /\ NoMain

\* the event and the App struct it found, appended to the last two
Remember(event) ==
    LET entry == [event |-> event, before |-> app]
    IN  IF Len(recent) < 2 THEN Append(recent, entry)
        ELSE <<recent[2], entry>>

\* one turn of the loop of handle_events, lines 539-595
HandleEvent ==
    /\ mpc = "api" /\ nevents < MaxPolls
    /\ \E event \in Events :
          /\ app' = handle_event(app, event)
          /\ recent' = Remember(event)
    /\ nevents' = nevents + 1
    /\ UNCHANGED <<pureVars, rendererVars, loadVars, display, mpc, argv,
                   metadata, exit_code, held_key>>

NextEvents == HandleEvent

SpecEvents == InitEvents /\ [][NextEvents]_vars

\* --------------------------------------------- a zoom key held down
\* the keys that repeat while held: zoom out and zoom in
HeldKeys == {"SDLK_MINUS", "SDLK_PLUS"}

InitZoom ==
    /\ fn = "none" /\ arg = NullStr /\ res = Pending
    /\ ViewerEmpty
    /\ app0 = app
    /\ display = [live |-> TRUE, shown |-> TRUE]
    /\ lpc = "idle" /\ image_path = NullStr /\ file_stat = 0
    /\ surface = NoSurface /\ result = SECURITY_OK /\ calls = <<>>
    /\ NoMain

\* the held key repeats: one more SDL_KEYDOWN of it is handled
KeyRepeat ==
    /\ mpc = "api" /\ nevents = 0
    /\ \E k \in HeldKeys :
          /\ held_key \in {"", k}
          /\ held_key' = k
          /\ app' = handle_event(app, Event("SDL_KEYDOWN", k, 0, 0))
    /\ UNCHANGED <<pureVars, rendererVars, loadVars, display, mainVars,
                   recent>>

\* any event is handled once the key has stopped repeating
PollAfterRepeat ==
    /\ mpc = "api" /\ nevents < MaxEvents
    /\ \E event \in Events : app' = handle_event(app, event)
    /\ nevents' = nevents + 1
    /\ UNCHANGED <<pureVars, rendererVars, loadVars, display, mpc, argv,
                   metadata, exit_code, inputVars>>

NextZoom ==
    \/ KeyRepeat
    \/ PollAfterRepeat

SpecZoom == InitZoom /\ [][NextZoom]_vars

\* ===================================================================== main
\* the command lines: no argument, or one path as the system hands it over
\* (no NULL, no byte behind the terminator)
ArgVectors ==
    {<<>>} \cup {<<p>> : p \in {q \in LoadPaths : ~q.null /\ ~HasNul(q)}}

\* the call of initialize_sdl that fails, or "none"
InitFailures ==
    {"SDL_Init", "IMG_Init", "SDL_CreateWindow", "SDL_CreateRenderer", "none"}

InitMain ==
    /\ fn = "none" /\ arg = NullStr /\ res = Pending
    /\ app = ZeroApp /\ app0 = ZeroApp
    /\ display = [live |-> FALSE, shown |-> FALSE]
    /\ LoaderIdle
    /\ mpc = "start"
    /\ argv \in ArgVectors
    /\ metadata = ZeroMetadata
    /\ exit_code = 0
    /\ nevents = 0
    /\ recent = <<>>
    /\ held_key = ""

\* lines 687-689 with initialize_sdl, lines 599-654
InitializeSdl ==
    /\ mpc = "start"
    /\ \E failed \in InitFailures :
          IF failed \in {"SDL_Init", "IMG_Init", "SDL_CreateWindow"}
              THEN /\ mpc' = "return_688" /\ exit_code' = 1
                   /\ UNCHANGED <<app, display>>
          ELSE IF failed = "SDL_CreateRenderer"
              THEN /\ mpc' = "return_688" /\ exit_code' = 1
                   /\ app' = [app EXCEPT !.window = 1]
                   /\ display' = [live |-> FALSE, shown |-> TRUE]
          ELSE /\ mpc' = "args"
               /\ app' = InitializedApp
               /\ display' = [live |-> TRUE, shown |-> TRUE]
               /\ UNCHANGED exit_code
    /\ UNCHANGED <<pureVars, inputVars, rendererVars, loadVars, argv, metadata, nevents>>

\* lines 691-707 with the validation of argv[1] left out
MainArgs_unvalidated ==
    /\ mpc = "args"
    /\ IF Len(argv) > 0
           THEN /\ Enter(argv[1])
                /\ mpc' = "load_image"
           ELSE /\ mpc' = "test"
                /\ UNCHANGED loadVars
    /\ UNCHANGED <<pureVars, inputVars, app, rendererVars, display, exit_code, argv,
                   metadata, nevents>>

\* lines 691-707: argv[1] is validated, then load_image is entered
MainArgs ==
    /\ mpc = "args"
    /\ IF Len(argv) > 0
           THEN IF validate_filepath(argv[1]) # SECURITY_OK
                    THEN /\ cleanup
                         /\ mpc' = "return_696" /\ exit_code' = 1
                         /\ UNCHANGED loadVars
                    ELSE /\ Enter(argv[1])
                         /\ mpc' = "load_image"
                         /\ UNCHANGED <<app, rendererVars, display, exit_code>>
           ELSE /\ mpc' = "test"
                /\ UNCHANGED <<app, rendererVars, display, exit_code, loadVars>>
    /\ UNCHANGED <<pureVars, inputVars, argv, metadata, nevents>>

\* lines 699-703: load_image has returned; on success the metadata is read.
\* The IMG_Load of extract_metadata decodes the path the loader has just
\* decoded: it fails, yields a surface of the dimensions now held, or, the
\* file having been replaced, one of other dimensions.
MainLoaded ==
    /\ mpc = "load_image" /\ lpc = "idle"
    /\ IF result = SECURITY_OK
           THEN \E st \in StatOutcomes,
                   dec \in {NoSurface, Surface(1, MAX_DIMENSION),
                            Surface(app.image_width, app.image_height)} :
                    metadata' = extract_metadata(argv[1], metadata, st, dec).md
           ELSE UNCHANGED metadata
    /\ mpc' = "test"
    /\ UNCHANGED <<pureVars, inputVars, app, rendererVars, display, loadVars, argv,
                   exit_code, nevents>>

\* line 711, and lines 719-721 once running is 0
LoopTest ==
    /\ mpc = "test"
    /\ IF app.running # 0
           THEN /\ mpc' = "events"
                /\ UNCHANGED <<app, rendererVars, display, metadata,
                               exit_code>>
           ELSE /\ metadata' = ZeroMetadata
                /\ cleanup
                /\ mpc' = "return_721" /\ exit_code' = 0
    /\ UNCHANGED <<pureVars, inputVars, loadVars, argv, nevents>>

\* handle_events: SDL_PollEvent hands over an event
PollEvent ==
    /\ mpc = "events" /\ nevents < MaxEvents
    /\ \E event \in Events : app' = handle_event(app, event)
    /\ nevents' = nevents + 1
    /\ UNCHANGED <<pureVars, inputVars, rendererVars, display, loadVars, mpc, argv,
                   metadata, exit_code>>

\* handle_events: SDL_PollEvent finds the queue empty
PollEmpty ==
    /\ mpc = "events"
    /\ mpc' = "render"
    /\ UNCHANGED <<pureVars, inputVars, app, rendererVars, display, loadVars, argv,
                   metadata, exit_code, nevents>>

\* lines 713-716: the frame is drawn
Render ==
    /\ mpc = "render"
    /\ mpc' = "test"
    /\ UNCHANGED <<pureVars, inputVars, app, rendererVars, display, loadVars, argv,
                   metadata, exit_code, nevents>>

NextMain ==
    \/ InitializeSdl
    \/ MainArgs
    \/ LoadSteps
    \/ MainLoaded
    \/ LoopTest
    \/ PollEvent
    \/ PollEmpty
    \/ Render

SpecMain == InitMain /\ [][NextMain]_vars

\* ================================================================ properties
\* the path, as the C code reads it, contains the two bytes ".."
ContainsDotDot(s) ==
    \E i \in 1..(strlen(s) - 1) : At(s, i) = 46 /\ At(s, i + 1) = 46

\* the caller's byte sequence holds a NUL before its logical end
HasEmbeddedNul(s) == \E i \in 1..LogicalLen(s) : At(s, i) = 0

Validated == fn = "validate_filepath" /\ res.done

\* C1 as stated: every path that contains ".." is answered AccessDenied,
\* whatever its length.
C1_DotDotAlwaysDenied ==
    (Validated /\ ~arg.null /\ ContainsDotDot(arg))
        => res.rc = SECURITY_ERROR_ACCESS_DENIED

\* C1 amended: a path that contains ".." is answered AccessDenied when its
\* length is in 1 .. MAX_PATH_LENGTH - 1, and PathTooLong when its length is
\* MAX_PATH_LENGTH or more (the length test comes first).
C1_DotDotDeniedBelowMax ==
    (Validated /\ ~arg.null /\ ContainsDotDot(arg))
        => IF strlen(arg) < MAX_PATH_LENGTH
               THEN res.rc = SECURITY_ERROR_ACCESS_DENIED
               ELSE res.rc = SECURITY_ERROR_PATH_TOO_LONG

C1_Witness ==
    /\ Validated /\ ~arg.null /\ ContainsDotDot(arg)
    /\ strlen(arg) = MAX_PATH_LENGTH - 1
    /\ res.rc = SECURITY_ERROR_ACCESS_DENIED

\* C7 as stated: validate_filepath fails for every path whose length is
\* MAX_PATH_LENGTH or more and for every byte sequence that holds a NUL
\* before its logical end.
C7_LongOrEmbeddedNulFails ==
    (Validated /\ ~arg.null
       /\ (LogicalLen(arg) >= MAX_PATH_LENGTH \/ HasEmbeddedNul(arg)))
        => res.rc # SECURITY_OK

\* C8 as stated: the empty path is answered InvalidInput, like the absent one.
C8_EmptyIsInvalidInput ==
    (Validated /\ (arg.null \/ strlen(arg) = 0))
        => res.rc = SECURITY_ERROR_INVALID_INPUT

\* C8 amended: the empty path (length 0) is answered PathTooLong; only the
\* absent path (NULL) is answered InvalidInput.
C8_EmptyIsPathTooLong ==
    /\ (Validated /\ arg.null) => res.rc = SECURITY_ERROR_INVALID_INPUT
    /\ (Validated /\ ~arg.null /\ strlen(arg) = 0)
           => res.rc = SECURITY_ERROR_PATH_TOO_LONG

C8_Witness ==
    /\ Validated /\ ~arg.null /\ LogicalLen(arg) = 0
    /\ res.rc = SECURITY_ERROR_PATH_TOO_LONG

Sanitized == fn = "sanitize_filename" /\ res.done /\ res.rc = SECURITY_OK

\* C9: when sanitize_filename(s, n) returns OK, no byte of the result is one
\* of < > : " | ? *, every byte of the result is printable ASCII, whitespace
\* or _, the result is terminated within n bytes, and the bytes that were
\* already allowed are the bytes of s.
C9_SanitizedBytes ==
    Sanitized =>
        /\ strlen(res.out) < arg.max_len
        /\ strlen(res.out) = strlen(arg.filename)
        /\ \A i \in 1..strlen(res.out) :
              LET before == At(arg.filename, i)
                  after == At(res.out, i)
                  allowed(c) ==
                      /\ c \notin {60, 62, 58, 34, 124, 63, 42}
                      /\ \/ c >= 32 /\ c <= 126
                         \/ c \in {9, 10, 11, 12, 13}
              IN  /\ allowed(after)
                  /\ allowed(before) => after = before
                  /\ ~allowed(before) => after = 95

C9_Witness ==
    /\ Sanitized
    /\ \E i \in 1..strlen(res.out) :
          At(arg.filename, i) = 63 /\ At(res.out, i) = 95
    /\ \E i \in 1..strlen(res.out) :
          At(arg.filename, i) = 97 /\ At(res.out, i) = 97

\* C10: validate_image_size answers OK for 0 <= size <= 104857600, FileTooLarge
\* for size > 104857600 and InvalidInput for size < 0.
C10_SizeGuard ==
    (fn = "validate_image_size" /\ res.done) =>
        /\ (arg >= 0 /\ arg <= 104857600) => res.rc = SECURITY_OK
        /\ arg > 104857600 => res.rc = SECURITY_ERROR_FILE_TOO_LARGE
        /\ arg < 0 => res.rc = SECURITY_ERROR_INVALID_INPUT

C10_Witness ==
    /\ fn = "validate_image_size" /\ res.done
    /\ arg = 104857600
    /\ res.rc = SECURITY_OK

\* the library calls of the current load_image_secure call that are f
CallsOf(f) == {i \in 1..Len(calls) : calls[i] = f}

\* C2 as stated: load_image_secure validates, stats, checks the size and
\* decodes in that order and stops at the first failure; a path that contains
\* ".." is answered AccessDenied with no stat and no decode call made, a stat
\* size above 100 MiB is answered FileTooLarge with no decode call made.
C2_DotDotDeniedBeforeStat ==
    /\ (lpc = "return" /\ ~image_path.null /\ ContainsDotDot(image_path))
           => (result = SECURITY_ERROR_ACCESS_DENIED /\ calls = <<>>)
    /\ (lpc = "return" /\ file_stat > 104857600)
           => (result = SECURITY_ERROR_FILE_TOO_LARGE /\ calls = <<"stat">>)

\* C2 amended: the order is validate, stat, size check, decode, and the call
\* stops at the first failure; a path that contains ".." is rejected by
\* validate_filepath with no stat and no decode call made (AccessDenied when
\* it is shorter than MAX_PATH_LENGTH, PathTooLong otherwise), a stat size
\* above 100 MiB is answered FileTooLarge with no decode call made.
C2_ValidateStatSizeDecode ==
    /\ calls # <<>> =>
           /\ calls[1] = "stat"
           /\ ~image_path.null /\ ~ContainsDotDot(image_path)
           /\ strlen(image_path) > 0 /\ strlen(image_path) < MAX_PATH_LENGTH
    /\ \A i \in CallsOf("stat") : i = 1
    /\ \A i \in CallsOf("IMG_Load") :
           i = 2 /\ file_stat >= 0 /\ file_stat <= 104857600
    /\ (lpc = "return" /\ ~image_path.null /\ ContainsDotDot(image_path))
           => /\ calls = <<>>
              /\ result = IF strlen(image_path) < MAX_PATH_LENGTH
                               THEN SECURITY_ERROR_ACCESS_DENIED
                               ELSE SECURITY_ERROR_PATH_TOO_LONG
    /\ (lpc = "return" /\ file_stat > 104857600)
           => (result = SECURITY_ERROR_FILE_TOO_LARGE /\ calls = <<"stat">>)

C2_Witness ==
    /\ lpc = "return"
    /\ file_stat = 150 * 1024 * 1024
    /\ result = SECURITY_ERROR_FILE_TOO_LARGE
    /\ calls = <<"stat">>

\* C3: at every point of every sequence of load_image_secure calls at most
\* one texture is undestroyed, and a load that replaces a held texture has
\* destroyed it before it creates the replacement.
C3_AtMostOneTexture ==
    /\ Cardinality(liveTextures) <= 1
    /\ (app0.image_texture # 0) =>
           \A j \in CallsOf("SDL_CreateTextureFromSurface") :
               \E i \in CallsOf("SDL_DestroyTexture") : i < j

C3_Witness ==
    /\ lpc = "commit"
    /\ app0.image_texture # 0
    /\ liveTextures = {app.image_texture}
    /\ CallsOf("SDL_DestroyTexture") # {}

\* C4: in every state between two load_image_secure calls, the held
\* dimensions are those of the surface the held texture was built from.
C4_DimensionsMatchTexture ==
    (lpc = "idle" /\ app.image_texture # 0)
        => <<app.image_width, app.image_height>> = texSource[app.image_texture]

C4_Witness ==
    /\ lpc = "return" /\ result = SECURITY_OK
    /\ app0.image_texture # 0
    /\ app.image_texture # 0
    /\ app.image_height # app0.image_height
    /\ <<app.image_width, app.image_height>> = texSource[app.image_texture]

Extracted == fn = "extract_metadata" /\ res.done

\* the path passes validate_filepath and sanitize_filename accepts the
\* 255-byte copy of its basename
PassesBoth(p) ==
    /\ ~p.null
    /\ validate_filepath(p) = SECURITY_OK
    /\ sanitize_filename(secure_strncpy(EmptyStr, Basename(p), 256), 256).rc
           = SECURITY_OK

\* C5 as stated: extract_metadata returns 0 only if validate_filepath rejects
\* the path or sanitize_filename rejects the basename; for a path that passes
\* both it returns 1 whatever stat and decode report.
C5_FailsOnlyOnPathOrName ==
    Extracted => (res.rc = 1 <=> PassesBoth(arg.filepath))

\* C5 amended: extract_metadata returns 0 only if validate_filepath rejects
\* the path, sanitize_filename rejects the basename, or stat succeeds and
\* reports a size that validate_image_size rejects (above 100 MiB); a failed
\* stat and a failed decode leave it returning 1 with zeros in the record.
C5_FailsOnPathNameOrSize ==
    Extracted =>
        /\ res.rc = 1 <=>
               /\ PassesBoth(arg.filepath)
               /\ ~(arg.stat.ok /\ arg.stat.st_size > 104857600)
        /\ (res.rc = 1 /\ ~arg.stat.ok) =>
               (res.out.file_size = 0 /\ res.out.modification_time = 0)
        /\ (res.rc = 1 /\ arg.decode.null) =>
               (res.out.width = 0 /\ res.out.height = 0)

C5_Witness ==
    /\ Extracted
    /\ PassesBoth(arg.filepath)
    /\ arg.stat.ok /\ arg.stat.st_size = 150 * 1024 * 1024
    /\ res.rc = 0

Exited == mpc \in {"return_688", "return_696", "return_721"}

\* C6 as stated: when the path of the command line fails validate_filepath
\* the process exits with code 1 and no window has been created or shown
\* before that; it exits with code 1 when the initialisation fails; it exits
\* with code 0 only from the end of the main loop.
C6_NoWindowBeforePathExit ==
    /\ mpc = "return_696" => (exit_code = 1 /\ ~display.shown)
    /\ mpc = "return_688" => exit_code = 1
    /\ (Exited /\ exit_code = 0) => mpc = "return_721"

\* C6 amended: when the path of the command line fails validate_filepath the
\* process exits with code 1 after initialize_sdl has created and shown the
\* window and cleanup has destroyed it again, with no stat, decode or texture
\* call made; it exits with code 1 when the initialisation fails; it exits
\* with code 0 only from the end of the main loop.
C6_PathExitAfterWindow ==
    /\ mpc = "return_696" =>
           /\ exit_code = 1
           /\ display.shown /\ ~display.live
           /\ calls = <<>> /\ liveTextures = {}
    /\ mpc = "return_688" => (exit_code = 1 /\ ~display.live)
    /\ (Exited /\ exit_code = 0) => mpc = "return_721"
    /\ mpc = "return_721" => (exit_code = 0 /\ display.shown /\ ~display.live)
    /\ (Exited /\ mpc # "return_688" /\ Len(argv) > 0) =>
           (mpc = "return_696" <=> validate_filepath(argv[1]) # SECURITY_OK)
    /\ (Exited /\ Len(argv) = 0) => mpc # "return_696"

C6_Witness ==
    /\ mpc = "return_696"
    /\ exit_code = 1
    /\ ContainsDotDot(argv[1])
    /\ display.shown /\ ~display.live

\* ---------------------------------------------------------- ViewportEngine
Rendered == fn = "render_image" /\ res.done

FreeMode == Rendered /\ arg.image_texture # 0 /\ arg.fit_to_window = 0

\* n * m for 0 <= n <= 2^15 and 0 <= m < 2^27, as hi * 2^24 + lo
BigProduct(n, m) ==
    LET A == n * (m \div 4096)
        B == n * (m % 4096)
        low == (A % 4096) * 4096 + B
    IN  [hi |-> (A \div 4096) + (low \div 16777216), lo |-> low % 16777216]

BigLess(p, q) == p.hi < q.hi \/ (p.hi = q.hi /\ p.lo < q.lo)

\* n * z.m
ExactProduct(n, z) == BigProduct(n, z.m)

\* the real number n * z is above 65536
ProductAbove65536(n, z) ==
    IF z = F32_INF THEN n > 0
    ELSE LET X == ExactProduct(n, z)
             s == 16 - z.e
         IN  IF s < 0 THEN X.hi > 0 \/ X.lo > 0
             ELSE IF s < 24 THEN X.hi > 0 \/ X.lo > Pow2(s)
             ELSE IF s <= 40
                 THEN X.hi > Pow2(s - 24) \/ (X.hi = Pow2(s - 24) /\ X.lo > 0)
             ELSE FALSE

\* the real number n * z is 0 or below (z is never negative)
ProductNotPositive(n, z) == z # F32_INF /\ (n = 0 \/ z.m = 0)

\* round(n * z), the nearest integer with halves away from zero, for a
\* product in 0 .. 65536
RoundedProduct(n, z) ==
    LET X == ExactProduct(n, z)
        k == 0 - z.e
    IN  IF k >= 42 THEN 0
        ELSE IF k >= 25
            THEN (X.hi + Pow2(k - 25)) \div Pow2(k - 24)
        ELSE LET sum == X.lo + Pow2(k - 1)
                 hi2 == X.hi + (sum \div 16777216)
                 lo2 == sum % 16777216
             IN  hi2 * Pow2(24 - k) + (lo2 \div Pow2(k))

\* C11 as stated: in free mode with a texture held, render_image draws
\* nothing if and only if image_w * zoom or image_h * zoom is <= 0 or
\* > 65536; otherwise the rectangle's width and height are
\* round(image_w * zoom) and round(image_h * zoom).
C11_FreeRectRounds ==
    FreeMode =>
        LET nothing ==
                \/ ProductNotPositive(arg.image_width, arg.zoom)
                \/ ProductNotPositive(arg.image_height, arg.zoom)
                \/ ProductAbove65536(arg.image_width, arg.zoom)
                \/ ProductAbove65536(arg.image_height, arg.zoom)
        IN  /\ ~res.out.drawn <=> nothing
            /\ ~nothing =>
                   /\ res.out.w = RoundedProduct(arg.image_width, arg.zoom)
                   /\ res.out.h = RoundedProduct(arg.image_height, arg.zoom)

\* C11 amended: in free mode with a texture held, render_image draws nothing
\* if and only if the float product (float)image_w * zoom or
\* (float)image_h * zoom is below 1 or is 65537 or more (the float-to-int
\* conversion drops the fraction); otherwise the width w and the height h of
\* the rectangle are those products with the fraction dropped,
\* w <= (float)image_w * zoom < w + 1, and the rectangle is centred in the
\* window and moved by (pan_x, pan_y).
C11_FreeRectTruncates ==
    FreeMode =>
        LET fw == f32_mul(f32_from_int(arg.image_width), arg.zoom)
            fh == f32_mul(f32_from_int(arg.image_height), arg.zoom)
            one == f32_from_int(1)
            top == f32_from_int(65537)
            r == res.out
        IN  /\ ~r.drawn <=> \/ f32_lt(fw, one) \/ f32_lt(fh, one)
                            \/ ~f32_lt(fw, top) \/ ~f32_lt(fh, top)
            /\ r.drawn =>
                   /\ ~f32_lt(fw, f32_from_int(r.w))
                   /\ f32_lt(fw, f32_from_int(r.w + 1))
                   /\ ~f32_lt(fh, f32_from_int(r.h))
                   /\ f32_lt(fh, f32_from_int(r.h + 1))
                   /\ 2 * (r.x - arg.pan_x) + r.w
                          \in {arg.window_width - 1, arg.window_width,
                               arg.window_width + 1}
                   /\ 2 * (r.y - arg.pan_y) + r.h
                          \in {arg.window_height - 1, arg.window_height,
                               arg.window_height + 1}

C11_Witness ==
    /\ FreeMode
    /\ arg.image_width = 3 /\ arg.image_height = 7
    /\ arg.zoom = [m |-> 10066330, e |-> 0 - 23]
    /\ res.out.drawn /\ res.out.w = 3 /\ res.out.h = 8

FitMode == Rendered /\ arg.image_texture # 0 /\ arg.fit_to_window # 0

\* the rectangle lies inside the window of a
InsideWindow(r, a) ==
    /\ r.x >= 0 /\ r.y >= 0
    /\ r.x + r.w <= a.window_width
    /\ r.y + r.h <= a.window_height

\* d is less than one away from exact = side * num / den
LessThanOneOff(d, side, num, den) ==
    /\ d >= 1 => BigLess(BigProduct(den, d - 1), BigProduct(num, side))
    /\ BigLess(BigProduct(num, side), BigProduct(den, d + 1))

\* d is exact = side * num / den rounded down, or one pixel off that
OnePixelOffFloor(d, side, num, den) ==
    /\ d >= 1 => ~BigLess(BigProduct(num, side), BigProduct(den, d - 1))
    /\ BigLess(BigProduct(num, side), BigProduct(den, d + 2))

\* pan_x and pan_y have no part in the rectangle
PanIgnored ==
    \A wild \in OutOfRangeInts :
        res.out = render_image([arg EXCEPT !.pan_x = 0, !.pan_y = 0], wild)

\* C12 as stated: in fit mode, for every positive window size and every image
\* size in [1, 32768] x [1, 32768], the rectangle lies inside the window, one
\* of its sides is the window's, the other side is the one the image's aspect
\* ratio gives, rounded to an integer (less than one pixel off), and pan_x
\* and pan_y do not affect it.
C12_FitRectInsideWindow ==
    FitMode =>
        LET r == res.out
        IN  /\ r.drawn
            /\ InsideWindow(r, arg)
            /\ \/ /\ r.w = arg.window_width
                  /\ LessThanOneOff(r.h, arg.window_width, arg.image_height,
                                    arg.image_width)
               \/ /\ r.h = arg.window_height
                  /\ LessThanOneOff(r.w, arg.window_height, arg.image_width,
                                    arg.image_height)
            /\ PanIgnored

\* C12 amended: in fit mode, for every window size with both sides in
\* [1, 65535] and every image size in [1, 32768] x [1, 32768], the rectangle
\* lies inside the window, one of its sides is the window's, the other side
\* is the exact side the image's aspect ratio gives rounded down, or one
\* pixel more or less than that, and pan_x and pan_y do not affect it; for a
\* wider window pan is still ignored and one side is still the window's.
C12_FitRectInsideRealWindow ==
    FitMode =>
        LET r == res.out
        IN  /\ r.drawn
            /\ r.w = arg.window_width \/ r.h = arg.window_height
            /\ PanIgnored
            /\ (arg.window_width <= 65535 /\ arg.window_height <= 65535) =>
                   /\ InsideWindow(r, arg)
                   /\ \/ /\ r.w = arg.window_width
                         /\ OnePixelOffFloor(r.h, arg.window_width,
                                             arg.image_height, arg.image_width)
                      \/ /\ r.h = arg.window_height
                         /\ OnePixelOffFloor(r.w, arg.window_height,
                                             arg.image_width, arg.image_height)

C12_Witness ==
    /\ FitMode
    /\ arg.window_width = 800 /\ arg.window_height = 600
    /\ arg.image_width = 3 /\ arg.image_height = 7
    /\ arg.pan_x = 7
    /\ res.out = Rect(271, 0, 257, 600)

\* ------------------------------------------------ InteractionStateMachine
\* the event handled last and the App struct it found
LastEvent == recent[Len(recent)].event

LastBefore == recent[Len(recent)].before

IsKey(e, syms) == e.type = "SDL_KEYDOWN" /\ e.code \in syms

IsWheel(e, ys) == e.type = "SDL_MOUSEWHEEL" /\ e.b \in ys

\* the rows of the transition table
InTable(e) ==
    \/ e.type = "SDL_QUIT"
    \/ e.type = "SDL_WINDOWEVENT" /\ e.code = "SDL_WINDOWEVENT_RESIZED"
    \/ IsKey(e, {"SDLK_ESCAPE", "SDLK_PLUS", "SDLK_EQUALS", "SDLK_MINUS",
                 "SDLK_f", "SDLK_1", "SDLK_i"})
    \/ e.type = "SDL_MOUSEWHEEL" /\ e.b # 0

\* every field of the App struct but those named is as it was
SameBut(fields) ==
    \A f \in (DOMAIN app) \ fields : app[f] = LastBefore[f]

\* the normal float x is y * num / den to one part in 2^20
TimesAbout(x, y, num, den) ==
    LET d == x.e - y.e
        L == x.m * den * (IF d = 1 THEN 2 ELSE 1)
        R == y.m * num * (IF d = 0 - 1 THEN 2 ELSE 1)
        off == IF L >= R THEN L - R ELSE R - L
    IN  d \in {0 - 1, 0, 1} /\ off <= R \div 1048576

\* C13: each zoom event (key + or =, key -, wheel up, wheel down) multiplies
\* or divides zoom by its factor (1.2f for the keys, 1.1f for the wheel, in
\* single precision), sets fit_to_window to false and leaves every other
\* field, pan, show_info, running and the window size among them, unchanged;
\* every event that is not in the transition table leaves the whole struct
\* unchanged.
C13_ZoomEventsFrame ==
    recent # <<>> =>
        LET e == LastEvent
            z0 == LastBefore.zoom
            zoomed(z, num, den) ==
                /\ app.zoom = z
                /\ TimesAbout(app.zoom, z0, num, den)
                /\ app.fit_to_window = 0
                /\ SameBut({"zoom", "fit_to_window"})
        IN  /\ IsKey(e, {"SDLK_PLUS", "SDLK_EQUALS"})
                   => zoomed(f32_mul(z0, F32_1_2), 12, 10)
            /\ IsKey(e, {"SDLK_MINUS"}) => zoomed(f32_div(z0, F32_1_2), 10, 12)
            /\ IsWheel(e, {1}) => zoomed(f32_mul(z0, F32_1_1), 11, 10)
            /\ IsWheel(e, {0 - 1}) => zoomed(f32_div(z0, F32_1_1), 10, 11)
            /\ ~InTable(e) => app = LastBefore

C13_Witness ==
    /\ Len(recent) = 2
    /\ IsKey(recent[1].event, {"SDLK_i"})
    /\ IsWheel(recent[2].event, {0 - 1})
    /\ LastBefore.fit_to_window = 1 /\ LastBefore.show_info = 1
    /\ app.fit_to_window = 0 /\ app.show_info = 1
    /\ app.zoom = [m |-> 15252014, e |-> 0 - 24]

\* the f key
FitKey == Event("SDL_KEYDOWN", "SDLK_f", 0, 0)

\* C14: after the fit key, zoom = 1.0, pan = (0, 0), fit_to_window = true and
\* every other field (show_info, running, the window size) is as it was; a
\* second fit key right after the first leaves the struct as the first left
\* it.
C14_FitKeyIdempotent ==
    /\ (recent # <<>> /\ LastEvent = FitKey) =>
           /\ app.zoom = F32_ONE /\ app.pan_x = 0 /\ app.pan_y = 0
           /\ app.fit_to_window = 1
           /\ SameBut({"zoom", "pan_x", "pan_y", "fit_to_window"})
    /\ (Len(recent) = 2 /\ recent[1].event = FitKey /\ recent[2].event = FitKey)
           => app = recent[2].before

C14_Witness ==
    /\ nevents = 3
    /\ recent[1].event = FitKey /\ recent[2].event = FitKey
    /\ recent[1].before.zoom # F32_ONE
    /\ recent[1].before.fit_to_window = 0
    /\ app = recent[2].before
    /\ app.zoom = F32_ONE /\ app.fit_to_window = 1

\* the i key
InfoKey == Event("SDL_KEYDOWN", "SDLK_i", 0, 0)

\* C15: each toggle-info event negates show_info and leaves every other
\* field (zoom, pan, fit_to_window, running, the window size, the held
\* texture, the image dimensions) unchanged, and the textures of the renderer
\* are untouched; two toggles in a row restore the struct they found.
C15_InfoToggleRestores ==
    /\ (recent # <<>> /\ LastEvent = InfoKey) =>
           /\ app.show_info = 1 - LastBefore.show_info
           /\ SameBut({"show_info"})
    /\ (Len(recent) = 2 /\ recent[1].event = InfoKey
          /\ recent[2].event = InfoKey) => app = recent[1].before
    /\ liveTextures = IF app.image_texture = 0 THEN {} ELSE {app.image_texture}

C15_Witness ==
    /\ nevents = 3
    /\ recent[1].event = InfoKey /\ recent[2].event = InfoKey
    /\ recent[1].before.fit_to_window = 0
    /\ recent[1].before.image_texture = 1
    /\ recent[2].before.show_info = 1
    /\ app = recent[1].before /\ app.show_info = 0

\* C16: in every state reached from the initial state (zoom = 1.0f) by a zoom
\* key held for any number of repeats and the events that follow, zoom is
\* strictly positive: zoom-out never takes it to zero or below.
C16_ZoomPositive == f32_lt(F32_ZERO, app.zoom)

C16_Witness ==
    /\ held_key = "SDLK_MINUS"
    /\ nevents = 1
    /\ app.zoom.e = 0 - 149 /\ app.zoom.m > 0 /\ app.zoom.m < 8388608
    /\ app.fit_to_window = 0

\* ----------------------------------------------------------- SecureMemory
\* C17 as stated: safe_free overwrites every byte of the block with zero
\* before it releases the block to the allocator, and sets the caller's
\* pointer to NULL afterwards.
C17_WipedBeforeRelease ==
    (fn = "safe_free" /\ res.done /\ ~arg.null /\ arg.held) =>
        /\ res.out.released
        /\ \A i \in 1..Len(res.out.bytes) : res.out.bytes[i] = 0
        /\ ~res.out.held

\* ------------------------------------------------------ MetadataExtractor
\* the part of the path after its last / or \, whichever comes later; the
\* whole path when it holds neither
AfterLastSeparator(p) ==
    LET seps == {i \in 1..strlen(p) : At(p, i) \in {47, 92}}
    IN  IF seps = {} THEN p ELSE StrFrom(p, SetMax(seps) + 1)

\* C18 as stated: the file name extract_metadata stores is taken from the
\* part of the path after the last separator of either kind (/ or \,
\* whichever occurs later), from the whole path when there is none.
C18_BasenameAfterLastSeparator ==
    (Extracted /\ res.rc = 1) =>
        res.out.filename =
            sanitize_filename(
                secure_strncpy(EmptyStr, AfterLastSeparator(arg.filepath),
                               256), 256).out

\* ------------------------------------------------------------ ImageLoader
InRange(n) == n >= 1 /\ n <= 32768

\* C19: whenever a texture is held and no load is between its two stores
\* (lines 263 and 269-270), image_width and image_height are each in
\* [1, 32768], and so are the dimensions of the surface the held texture was
\* built from; a decode whose width or height is outside [1, 32768] is
\* answered InvalidInput with no texture built and the App struct untouched.
C19_HeldDimensionsInRange ==
    /\ (app.image_texture # 0 /\ lpc # "commit") =>
           (InRange(app.image_width) /\ InRange(app.image_height))
    /\ app.image_texture # 0 =>
           /\ InRange(texSource[app.image_texture][1])
           /\ InRange(texSource[app.image_texture][2])
    /\ (lpc = "return" /\ ~surface.null
          /\ ~(InRange(surface.w) /\ InRange(surface.h))) =>
           /\ result = SECURITY_ERROR_INVALID_INPUT
           /\ app = app0
           /\ CallsOf("SDL_CreateTextureFromSurface") = {}
           /\ CallsOf("SDL_DestroyTexture") = {}

C19_Witness ==
    /\ lpc = "return"
    /\ surface.w = 32769 /\ surface.h = 1
    /\ result = SECURITY_ERROR_INVALID_INPUT
    /\ app0.image_texture # 0 /\ app0.image_width = 32768
    /\ app = app0

\* C20: a surface that IMG_Load returned is freed exactly once before
\* load_image_secure returns, as the last library call of the call, on each
\* of the three paths after the decode (dimensions rejected, texture not
\* built, success); no surface is freed when none was decoded.
C20_SurfaceFreedOnce ==
    /\ Cardinality(CallsOf("SDL_FreeSurface")) <= 1
    /\ \A i \in CallsOf("SDL_FreeSurface") :
           i = Len(calls) /\ CallsOf("IMG_Load") # {} /\ ~surface.null
    /\ lpc = "return" =>
           (CallsOf("SDL_FreeSurface") = {} <=> surface.null)
    /\ (lpc = "return" /\ ~surface.null) =>
           result \in {SECURITY_ERROR_INVALID_INPUT,
                       SECURITY_ERROR_MEMORY_ALLOCATION, SECURITY_OK}

C20_Witness ==
    /\ lpc = "return"
    /\ result = SECURITY_ERROR_MEMORY_ALLOCATION
    /\ ~surface.null
    /\ CallsOf("SDL_FreeSurface") = {Len(calls)}
    /\ CallsOf("SDL_CreateTextureFromSurface") = {Len(calls) - 1}

HeldBefore == app0.image_texture # 0

\* C21: when load_image_secure returns an error, the texture held before the
\* call is still held and undestroyed, and image_width and image_height are
\* what they were before the call.
C21_ErrorKeepsTextureAndDimensions ==
    (lpc = "return" /\ result # SECURITY_OK) =>
        /\ app.image_texture = app0.image_texture
        /\ HeldBefore => app0.image_texture \in liveTextures
        /\ app.image_width = app0.image_width
        /\ app.image_height = app0.image_height

\* C21 (amended): when load_image_secure returns an error other than
\* MemoryAllocation, the App struct is what it was before the call and the
\* texture held before is undestroyed; when it returns MemoryAllocation, the
\* texture held before has been destroyed, image_texture is NULL and every
\* other field, image_width and image_height included, is what it was
\* before the call.
C21_ErrorKeepsUnlessConstructionFails ==
    /\ (lpc = "return"
          /\ result \notin {SECURITY_OK, SECURITY_ERROR_MEMORY_ALLOCATION}) =>
           /\ app = app0
           /\ CallsOf("SDL_DestroyTexture") = {}
           /\ HeldBefore => app0.image_texture \in liveTextures
    /\ (lpc = "return" /\ result = SECURITY_ERROR_MEMORY_ALLOCATION) =>
           /\ app = [app0 EXCEPT !.image_texture = 0]
           /\ liveTextures = {}
           /\ HeldBefore <=> CallsOf("SDL_DestroyTexture") # {}

C21_Witness ==
    /\ lpc = "return"
    /\ result = SECURITY_ERROR_MEMORY_ALLOCATION
    /\ HeldBefore
    /\ app.image_texture = 0
    /\ app0.image_texture \notin liveTextures
    /\ app.image_width = app0.image_width
    /\ app.image_width # surface.w

\* ------------------------------------------------------------------- pan
\* the margins left and right of (above and below) the rectangle differ by
\* at most one pixel
Centred(r, a) ==
    /\ (a.window_width - r.w - r.x) - r.x \in {0 - 1, 0, 1}
    /\ (a.window_height - r.h - r.y) - r.y \in {0 - 1, 0, 1}

\* C22: in every state reached from the initialised viewer by input events,
\* pan_x = 0 and pan_y = 0, and the rectangle render_image draws in free
\* mode is the centred one, x = (window_width - w) / 2 and
\* y = (window_height - h) / 2.
C22_PanAlwaysZero ==
    /\ app.pan_x = 0 /\ app.pan_y = 0
    /\ \A wild \in OutOfRangeInts :
           LET r == render_image(app, wild)
           IN  (app.fit_to_window = 0 /\ r.drawn) =>
                   /\ r.x = c_div(app.window_width - r.w, 2)
                   /\ r.y = c_div(app.window_height - r.h, 2)
                   /\ Centred(r, app)

C22_Witness ==
    /\ recent # <<>>
    /\ app.fit_to_window = 0 /\ app.image_texture # 0
    /\ app.pan_x = 0 /\ app.pan_y = 0
    /\ render_image(app, 2147483647) = Rect(310, 236, 19, 8)

====
